---- MODULE Spec2Model ----
(***************************************************************************)
(* Countdown numbers solver (src/src/main.rs): the Term data model, its    *)
(* equality and rendering, and the backtracking search of Solver, with the *)
(* recursion of solve()/try_expr() made explicit as a stack of frames.     *)
(*                                                                         *)
(* Indices i, j, pos are the 0-based indices of the Rust code; sequences   *)
(* are 1-based, so element i of a Vec is s[i + 1].                         *)
(* Values are usize; within the bounds below every value stays far below   *)
(* 2^64, so no arithmetic wraps or overflows.                              *)
(***************************************************************************)
EXTENDS Integers, Sequences, FiniteSets, TLC

VARIABLES remaining, solutions, target, counter, stack, status, initial, calls, steps

vars == <<remaining, solutions, target, counter, stack, status, initial, calls, steps>>

(* ------------------------------ bounds --------------------------------- *)
\* Most numbers in an input
MaxN == 4
\* Most an input weighs: the sum of its numbers plus how many they are
MaxWeight == 9
\* Largest target
MaxTarget == 7

(* ---------------------------- data model ------------------------------- *)
Operator == {"Addition", "Subtraction", "Multiplication", "Division"}

\* Term { expression: None, value: v }
Atom(v) == [value |-> v, expression |-> <<>>]

\* Term { expression: Some((op, a, b)), value: v }
Derived(v, expr) == [value |-> v, expression |-> expr]

IsAtomic(t) == t.expression = <<>>

(* Vec::remove(i) and Vec::insert(i, x) *)
Remove(s, i) == SubSeq(s, 1, i) \o SubSeq(s, i + 2, Len(s))

Insert(s, i, x) == SubSeq(s, 1, i) \o <<x>> \o SubSeq(s, i + 1, Len(s))

(* ------------------------- Display for Term ---------------------------- *)
OpSign(op) ==
    CASE op = "Addition" -> " + "
      [] op = "Subtraction" -> " - "
      [] op = "Multiplication" -> " * "
      [] op = "Division" -> " / "

RECURSIVE Render(_)
Render(t) ==
    IF IsAtomic(t) THEN ToString(t.value)
    ELSE "(" \o Render(t.expression[2]) \o OpSign(t.expression[1])
             \o Render(t.expression[3]) \o ")"

(* ------------------------ PartialEq for Term --------------------------- *)
RECURSIVE TermEq(_, _)
\* Faulty variant: equality by value alone
TermEqValueOnly(s, o) == s.value = o.value

\* Faulty variant: every pair of operators falls to `_ => return false`
TermEqNoOperator(s, o) ==
    IF s.value # o.value THEN FALSE
    ELSE IF ~IsAtomic(s) /\ ~IsAtomic(o) THEN FALSE
    ELSE IsAtomic(s) /\ IsAtomic(o)

TermEq(s, o) ==
    IF s.value # o.value THEN FALSE
    ELSE IF ~IsAtomic(s) /\ ~IsAtomic(o)
         THEN IF s.expression[1] # o.expression[1] THEN FALSE
              ELSE /\ TermEq(s.expression[2], o.expression[2])
                   /\ TermEq(s.expression[3], o.expression[3])
    ELSE IsAtomic(s) /\ IsAtomic(o)

\* self.solutions.contains(&c)
Contains(sols, c) == \E k \in 1..Len(sols) : TermEq(sols[k], c)

(* --------------------------- Solver::new ------------------------------- *)
\* Stable sort by value descending: an element goes after every element
\* already placed whose value is >= its own.
SortedInsert(s, t) ==
    LET before == {k \in 1..Len(s) : s[k].value >= t.value}
        p == IF before = {} THEN 0 ELSE CHOOSE k \in before : \A l \in before : l <= k
    IN Insert(s, p, t)

\* Faulty variant: the sort left out
SortOmitted(s) == s

RECURSIVE SortDesc(_)
SortDesc(s) ==
    IF s = <<>> THEN <<>>
    ELSE SortedInsert(SortDesc(SubSeq(s, 1, Len(s) - 1)), s[Len(s)])

New(numbers, t) ==
    [remaining |-> SortDesc([k \in 1..Len(numbers) |-> Atom(numbers[k])]),
     solutions |-> <<>>,
     target    |-> t,
     counter   |-> 0]

(* ------------------------- Solver::try_expr ---------------------------- *)
\* assert!(expr.1.value >= expr.2.value)
AssertFails(expr) == expr[2].value < expr[3].value

\* expr.1.value % expr.2.value with a zero divisor panics
DivByZero(expr) == expr[1] = "Division" /\ expr[3].value = 0

\* Faulty variant: the remainder check of the division left out
PrunedNoRemainderCheck(expr) ==
    expr[1] = "Subtraction" /\ expr[2].value <= expr[3].value

\* Faulty variant: the subtraction guard `<` for `<=`, so a zero term is built
PrunedZeroAllowed(expr) ==
    \/ expr[1] = "Subtraction" /\ expr[2].value < expr[3].value
    \/ expr[1] = "Division" /\ expr[2].value % expr[3].value # 0

\* The early returns of try_expr: no term is built.
Pruned(expr) ==
    \/ expr[1] = "Subtraction" /\ expr[2].value <= expr[3].value
    \/ expr[1] = "Division" /\ expr[2].value % expr[3].value # 0

\* The value of the new term c
Calc(expr) ==
    CASE expr[1] = "Addition" -> expr[2].value + expr[3].value
      [] expr[1] = "Subtraction" -> expr[2].value - expr[3].value
      [] expr[1] = "Multiplication" -> expr[2].value * expr[3].value
      [] expr[1] = "Division" -> expr[2].value \div expr[3].value

\* if c.value == self.target && !self.solutions.contains(&c) { push }
Record(sols, c, tgt) ==
    IF c.value = tgt /\ ~Contains(sols, c) THEN Append(sols, c) ELSE sols

\* Faulty variant: `>= 0` for `> 0`
RecursesAlways(rem) == Len(rem) >= 0

\* if self.remaining.len() > 0

Recurses(rem) == Len(rem) > 0

\* Faulty variant: the comparison reversed, `>=` for `<=`
InsertPosReversed(rem, c) ==
    LET stop == {k \in 1..Len(rem) : rem[k].value >= c.value}
    IN IF stop = {} THEN Len(rem)
       ELSE (CHOOSE k \in stop : \A l \in stop : k <= l) - 1

\* Insert position: the first index whose term has value <= c.value
InsertPos(rem, c) ==
    LET stop == {k \in 1..Len(rem) : rem[k].value <= c.value}
    IN IF stop = {} THEN Len(rem)
       ELSE (CHOOSE k \in stop : \A l \in stop : k <= l) - 1

(* --------------------------- Solver::solve ----------------------------- *)
\* Faulty variant: push for insert(j, ..)
ReinsertBPush(rem, j, t) == Append(rem, t)

\* self.remaining.insert(j, expr.2)

ReinsertB(rem, j, t) == Insert(rem, j, t)

\* self.remaining.insert(i, a)
ReinsertA(rem, i, t) == Insert(rem, i, t)

\* The operator solve() gives expr.0 after a try_expr returned
NextOperator(op) ==
    CASE op = "Addition" -> "Subtraction"
      [] op = "Subtraction" -> "Multiplication"
      [] op = "Multiplication" -> "Division"

\* A moved-out local
Moved == <<>>

\* The frame of one invocation of solve(): its loop variables and position.
\* entry and tentry record the pool on entry to solve() and to the first
\* try_expr of the current pair.
SolveFrame(rem) ==
    [pc |-> "outer", i |-> 0, n |-> Len(rem), j |-> 0, m |-> 0,
     a |-> Moved, expr |-> Moved, pos |-> 0, entry |-> rem, tentry |-> <<>>]

Top == stack[Len(stack)]

SetTop(f) == [stack EXCEPT ![Len(stack)] = f]

\* try_expr returned expr to solve(): the next operator, or the end of the pair
AfterTry(f, expr) ==
    IF expr[1] = "Division"
    THEN [f EXCEPT !.pc = "putb", !.expr = expr]
    ELSE [f EXCEPT !.pc = "try", !.expr = <<NextOperator(expr[1]), expr[2], expr[3]>>]

(* ------------------------------ inputs --------------------------------- *)
RECURSIVE Sum(_)
Sum(s) == IF s = <<>> THEN 0 ELSE s[1] + Sum(Tail(s))

Weight(s) == Sum(s) + Len(s)

\* The inputs: sequences of lo..MaxN positive integers of bounded weight
Numbers(lo) ==
    UNION {{s \in [1..n -> 1..(MaxWeight - n)] : Weight(s) <= MaxWeight} : n \in lo..MaxN}

InitWith(numbers, t) ==
    LET s == New(numbers, t)
    IN /\ remaining = s.remaining
       /\ solutions = s.solutions
       /\ target = s.target
       /\ counter = s.counter
       /\ initial = s.remaining
       /\ stack = <<>>
       /\ status = "new"
       /\ calls = 0
       /\ steps = 0

\* A solver as main() builds it: at least two positive numbers, a positive target
Init == \E numbers \in Numbers(2), t \in 1..MaxTarget : InitWith(numbers, t)

\* A solver built by Solver::new from any slice of positive numbers and any target
InitAny == \E numbers \in Numbers(0), t \in 0..MaxTarget : InitWith(numbers, t)

(* ------------------------------ actions -------------------------------- *)
\* main: solver.solve()
CallSolve ==
    /\ status = "new"
    /\ steps' = steps + 1
    /\ status' = "running"
    /\ stack' = <<SolveFrame(remaining)>>
    /\ UNCHANGED <<remaining, solutions, target, counter, initial, calls>>

\* for i in 0..n: let mut a = self.remaining.remove(i); for j in i..len
SolveTakeA ==
    /\ status = "running" /\ Top.pc = "outer" /\ Top.i < Top.n
    /\ steps' = steps + 1
    /\ IF Top.i >= Len(remaining)
       THEN status' = "panic" /\ UNCHANGED <<remaining, stack>>
       ELSE /\ remaining' = Remove(remaining, Top.i)
            /\ stack' = SetTop([Top EXCEPT !.pc = "inner", !.a = remaining[Top.i + 1],
                                           !.j = Top.i, !.m = Len(remaining) - 1])
            /\ UNCHANGED status
    /\ UNCHANGED <<solutions, target, counter, initial, calls>>

\* The outer loop is exhausted: solve() returns, to try_expr or to main
SolveReturn ==
    /\ status = "running" /\ Top.pc = "outer" /\ Top.i >= Top.n
    /\ steps' = steps + 1
    /\ stack' = SubSeq(stack, 1, Len(stack) - 1)
    /\ status' = IF Len(stack) = 1 THEN "done" ELSE "running"
    /\ UNCHANGED <<remaining, solutions, target, counter, initial, calls>>

\* let mut expr = (Operator::Addition, a, self.remaining.remove(j))
SolveTakeB ==
    /\ status = "running" /\ Top.pc = "inner" /\ Top.j < Top.m
    /\ steps' = steps + 1
    /\ IF Top.j >= Len(remaining)
       THEN status' = "panic" /\ UNCHANGED <<remaining, stack>>
       ELSE /\ remaining' = Remove(remaining, Top.j)
            /\ stack' = SetTop([Top EXCEPT !.pc = "try", !.a = Moved,
                                  !.expr = <<"Addition", Top.a, remaining[Top.j + 1]>>,
                                  !.tentry = remaining'])
            /\ UNCHANGED status
    /\ UNCHANGED <<solutions, target, counter, initial, calls>>

\* self.remaining.insert(j, expr.2); a = expr.1; next j
SolvePutB ==
    /\ status = "running" /\ Top.pc = "putb"
    /\ steps' = steps + 1
    /\ IF Top.j > Len(remaining)
       THEN status' = "panic" /\ UNCHANGED <<remaining, stack>>
       ELSE /\ remaining' = ReinsertB(remaining, Top.j, Top.expr[3])
            /\ stack' = SetTop([Top EXCEPT !.pc = "inner", !.a = Top.expr[2],
                                           !.expr = Moved, !.j = Top.j + 1])
            /\ UNCHANGED status
    /\ UNCHANGED <<solutions, target, counter, initial, calls>>

\* The inner loop is exhausted: self.remaining.insert(i, a); next i
SolvePutA ==
    /\ status = "running" /\ Top.pc = "inner" /\ Top.j >= Top.m
    /\ steps' = steps + 1
    /\ IF Top.i > Len(remaining)
       THEN status' = "panic" /\ UNCHANGED <<remaining, stack>>
       ELSE /\ remaining' = ReinsertA(remaining, Top.i, Top.a)
            /\ stack' = SetTop([Top EXCEPT !.pc = "outer", !.a = Moved, !.i = Top.i + 1])
            /\ UNCHANGED status
    /\ UNCHANGED <<solutions, target, counter, initial, calls>>

\* try_expr(expr) up to its return or its recursive call of solve()
TryExpr ==
    /\ status = "running" /\ Top.pc = "try"
    /\ steps' = steps + 1
    /\ calls' = calls + 1
    /\ LET f == Top
           expr == f.expr
       IN IF AssertFails(expr) \/ DivByZero(expr)
          THEN /\ status' = "panic"
               /\ UNCHANGED <<remaining, solutions, counter, stack>>
          ELSE IF Pruned(expr)
          THEN /\ stack' = SetTop(AfterTry(f, expr))
               /\ UNCHANGED <<remaining, solutions, counter, status>>
          ELSE LET c == Derived(Calc(expr), expr)
               IN /\ counter' = counter + 1
                  /\ solutions' = Record(solutions, c, target)
                  /\ UNCHANGED status
                  /\ IF Recurses(remaining)
                     THEN LET pos == InsertPos(remaining, c)
                          IN /\ remaining' = Insert(remaining, pos, c)
                             /\ stack' = Append(
                                    SetTop([f EXCEPT !.pc = "ret", !.pos = pos,
                                                     !.expr = Moved]),
                                    SolveFrame(remaining'))
                     ELSE /\ stack' = SetTop(AfterTry(f, expr))
                          /\ UNCHANGED remaining
    /\ UNCHANGED <<target, initial>>

\* The recursive solve() returned: c = self.remaining.remove(pos);
\* c.expression.unwrap() is returned to solve()
TryExprResume ==
    /\ status = "running" /\ Top.pc = "ret"
    /\ steps' = steps + 1
    /\ IF Top.pos >= Len(remaining) \/ IsAtomic(remaining[Top.pos + 1])
       THEN status' = "panic" /\ UNCHANGED <<remaining, stack>>
       ELSE /\ remaining' = Remove(remaining, Top.pos)
            /\ stack' = SetTop(AfterTry(Top, remaining[Top.pos + 1].expression))
            /\ UNCHANGED status
    /\ UNCHANGED <<solutions, target, counter, initial, calls>>

Next ==
    \/ CallSolve
    \/ SolveTakeA
    \/ SolveReturn
    \/ SolveTakeB
    \/ SolvePutB
    \/ SolvePutA
    \/ TryExpr
    \/ TryExprResume

Spec == Init /\ [][Next]_vars

SpecAny == InitAny /\ [][Next]_vars

(* ======================================================================= *)
(* Properties                                                              *)
(* ======================================================================= *)
Done == status = "done"

Sols == {solutions[k] : k \in 1..Len(solutions)}

\* solutions is only ever appended to (Record), so a property of all its
\* entries, or of all pairs of them, holds in every state if in every state
\* it holds of the newest entry, or of the newest entry paired with each
\* earlier one. The properties below are stated that way while solve() runs
\* and of all entries, or all pairs, once it has returned.
Newest == solutions[Len(solutions)]

Earlier == {solutions[k] : k \in 1..(Len(solutions) - 1)}

Left(t) == t.expression[2]

Right(t) == t.expression[3]

OpOf(t) == t.expression[1]

\* The value of an expression tree, computed from its leaves
RECURSIVE Eval(_)
Eval(t) ==
    IF t.expression = <<>> THEN t.value
    ELSE LET l == Eval(Left(t))
             r == Eval(Right(t))
         IN CASE OpOf(t) = "Addition" -> l + r
              [] OpOf(t) = "Subtraction" -> l - r
              [] OpOf(t) = "Multiplication" -> l * r
              [] OpOf(t) = "Division" -> l \div r

\* Every node is a positive integer reached by an allowed step
RECURSIVE NodesOk(_)
NodesOk(t) ==
    /\ t.value >= 1
    /\ \/ t.expression = <<>>
       \/ /\ NodesOk(Left(t)) /\ NodesOk(Right(t))
          /\ OpOf(t) = "Subtraction" => Left(t).value > Right(t).value
          /\ OpOf(t) = "Division" => Left(t).value % Right(t).value = 0

\* C1: every solution has the target's value, that value is what its tree
\* evaluates to, and every node of the tree is a positive integer reached
\* without a non-positive subtraction or an inexact division.
Sound(t) == t.value = target /\ NodesOk(t) /\ Eval(t) = t.value

Soundness ==
    /\ solutions # <<>> => Sound(Newest)
    /\ Done => \A t \in Sols : Sound(t)

SoundnessWitness ==
    /\ Done
    /\ \E t \in Sols : /\ OpOf(t) = "Division"
                       /\ ~IsAtomic(Left(t)) /\ OpOf(Left(t)) = "Subtraction"

Commutative(op) == op \in {"Addition", "Multiplication"}

\* Equal after swapping the operands of some addition and multiplication nodes
RECURSIVE CommEq(_, _)
CommEq(s, t) ==
    /\ s.value = t.value
    /\ IF s.expression = <<>> \/ t.expression = <<>>
       THEN s.expression = <<>> /\ t.expression = <<>>
       ELSE /\ OpOf(s) = OpOf(t)
            /\ \/ CommEq(Left(s), Left(t)) /\ CommEq(Right(s), Right(t))
               \/ /\ Commutative(OpOf(s))
                  /\ CommEq(Left(s), Right(t)) /\ CommEq(Right(s), Left(t))

\* The terms the rules allow from operands a and b, in this order
Allowed(a, b) ==
    {Derived(a.value + b.value, <<"Addition", a, b>>),
     Derived(a.value * b.value, <<"Multiplication", a, b>>)}
    \cup (IF a.value > b.value
          THEN {Derived(a.value - b.value, <<"Subtraction", a, b>>)} ELSE {})
    \cup (IF a.value % b.value = 0
          THEN {Derived(a.value \div b.value, <<"Division", a, b>>)} ELSE {})

\* The expression trees over exactly the leaves p[k], k \in S
RECURSIVE TreesOver(_, _)
TreesOver(p, S) ==
    IF Cardinality(S) = 1 THEN {p[CHOOSE k \in S : TRUE]}
    ELSE UNION {UNION {Allowed(a, b) : a \in TreesOver(p, L), b \in TreesOver(p, S \ L)}
                : L \in (SUBSET S) \ {{}, S}}

\* Every tree with at least two leaves that uses each number of p at most once
AllTrees(p) ==
    UNION {TreesOver(p, S) : S \in {T \in SUBSET (1..Len(p)) : Cardinality(T) >= 2}}

\* C2: after solve() every allowed tree over the input whose value is the
\* target is among the solutions, up to the operand order of additions and
\* multiplications.
Completeness ==
    Done => \A t \in AllTrees(initial) :
                t.value = target => \E s \in Sols : CommEq(t, s)

\* C3: no two solutions are structurally equal, and trees that differ in
\* operator are both kept: [2, 2] with target 4 ends with 2 + 2 and 2 * 2.
Distinctness ==
    /\ solutions # <<>> => Newest \notin Earlier
    /\ Done => \A k, l \in 1..Len(solutions) : k # l => solutions[k] # solutions[l]
    /\ (Done /\ initial = New(<<2, 2>>, 4).remaining /\ target = 4)
         => Sols = {Derived(4, <<"Addition", Atom(2), Atom(2)>>),
                    Derived(4, <<"Multiplication", Atom(2), Atom(2)>>)}

DistinctnessWitness ==
    Done /\ initial = New(<<2, 2>>, 4).remaining /\ target = 4 /\ Len(solutions) = 2

\* C4 as claimed: after solve() no two solutions differ only by the operand
\* order of additions and multiplications.
SemanticallyOnce ==
    Done => \A k, l \in 1..Len(solutions) :
                k # l => ~CommEq(solutions[k], solutions[l])

\* Equal after swapping the operands of some addition and multiplication
\* nodes whose two operands have different values
RECURSIVE UnequalSwapEq(_, _)
UnequalSwapEq(s, t) ==
    /\ s.value = t.value
    /\ IF s.expression = <<>> \/ t.expression = <<>>
       THEN s.expression = <<>> /\ t.expression = <<>>
       ELSE /\ OpOf(s) = OpOf(t)
            /\ \/ UnequalSwapEq(Left(s), Left(t)) /\ UnequalSwapEq(Right(s), Right(t))
               \/ /\ Commutative(OpOf(s))
                  /\ Left(s).value # Right(s).value
                  /\ UnequalSwapEq(Left(s), Right(t)) /\ UnequalSwapEq(Right(s), Left(t))

\* C4 as amended: no two solutions are equal up to the operand order of
\* additions and multiplications whose operands have different values; two
\* solutions that differ only by operand order differ at a node whose two
\* operands have the same value.
OnceUpToUnequalSwaps ==
    /\ solutions # <<>> => \A t \in Earlier : ~UnequalSwapEq(t, Newest)
    /\ Done => \A k, l \in 1..Len(solutions) :
                   k # l => ~UnequalSwapEq(solutions[k], solutions[l])

OnceUpToUnequalSwapsWitness ==
    Done /\ \E k, l \in 1..Len(solutions) :
                k # l /\ CommEq(solutions[k], solutions[l])

\* C5 as claimed: [3, 4] with target 7 ends with the one solution (3 + 4).
ThreeFourAsClaimed ==
    (Done /\ initial = New(<<3, 4>>, 7).remaining /\ target = 7)
      => /\ Len(solutions) = 1
         /\ solutions[1] = Derived(7, <<"Addition", Atom(3), Atom(4)>>)
         /\ Render(solutions[1]) = "(3 + 4)"

\* C5 as amended: [3, 4] with target 7 runs without a failed assertion and
\* ends with exactly one solution, the addition of the atomic 4 and the
\* atomic 3 in this order, of value 7, rendered (4 + 3).
ThreeFour ==
    (initial = New(<<3, 4>>, 7).remaining /\ target = 7)
      => /\ status # "panic"
         /\ Done => /\ Len(solutions) = 1
                    /\ solutions[1] = Derived(7, <<"Addition", Atom(4), Atom(3)>>)
                    /\ solutions[1].value = 7
                    /\ Render(solutions[1]) = "(4 + 3)"

ThreeFourWitness ==
    Done /\ initial = New(<<3, 4>>, 7).remaining /\ target = 7 /\ Len(solutions) = 1

\* The values of the terms the rules allow from a pair of values hi >= lo
Results(hi, lo) ==
    <<hi + lo>> \o (IF hi > lo THEN <<hi - lo>> ELSE <<>>)
    \o <<hi * lo>> \o (IF hi % lo = 0 THEN <<hi \div lo>> ELSE <<>>)

Larger(x, y) == IF x >= y THEN x ELSE y

Smaller(x, y) == IF x >= y THEN y ELSE x

\* The number of terms an exhaustive search builds from a pool of values v:
\* one per allowed operator application on each pair, plus what the search
\* builds from the pool with the pair replaced by that result
RECURSIVE Built(_)
BuiltFromPair(v, i, j) ==
    LET rs == Results(Larger(v[i], v[j]), Smaller(v[i], v[j]))
        rest == [k \in 1..(Len(v) - 2) |->
                    IF k < i THEN v[k] ELSE IF k + 1 < j THEN v[k + 1] ELSE v[k + 2]]
    IN Sum([q \in 1..Len(rs) |->
              1 + (IF rest = <<>> THEN 0 ELSE Built(rest \o <<rs[q]>>))])

Built(v) ==
    LET n == Len(v)
    IN Sum([k \in 1..(n * n) |->
              LET i == ((k - 1) \div n) + 1
                  j == ((k - 1) % n) + 1
              IN IF i < j THEN BuiltFromPair(v, i, j) ELSE 0])

ValuesOf(pool) == [k \in 1..Len(pool) |-> pool[k].value]

\* C6 as claimed: after solve() the counter is the number of calls of
\* try_expr, pruned ones included.
CounterCountsCalls == Done => counter = calls

\* C6 as amended: after solve() the counter is the number of terms built,
\* one per operator application that passed the pruning rules, at every
\* recursion level; the pruned calls of try_expr are not counted.
CounterCountsBuilt == Done => counter = Built(ValuesOf(initial)) /\ counter <= calls

CounterCountsBuiltWitness == Done /\ 4 < counter /\ counter < calls

PreconditionFewNumbersWitness == Done /\ Len(initial) = 1

\* C8: solve() returns with the pool as it was entered, try_expr returns
\* with the pool as it found it, and after the top-level solve() the pool is
\* the initial one, sorted descending.
SortedDesc(pool) == \A k \in 1..(Len(pool) - 1) : pool[k].value >= pool[k + 1].value

PoolRestored ==
    /\ status # "panic"
    /\ status = "running" =>
         /\ Top.pc = "outer" => remaining = Top.entry
         /\ Top.pc \in {"try", "putb"} => remaining = Top.tentry
    /\ Done => remaining = initial /\ SortedDesc(remaining)

PoolRestoredWitness ==
    /\ status = "running" /\ Len(stack) >= 2
    /\ Top.pc = "outer" /\ Top.i = Top.n /\ Top.n >= 2
    /\ remaining = Top.entry

\* C9: the pool is sorted by value descending at every point of the search,
\* every try_expr gets a first operand at least as large as the second, and
\* its assertion never fails.
OrderingPruning ==
    /\ status # "panic"
    /\ SortedDesc(remaining)
    /\ (status = "running" /\ Top.pc = "try") => Top.expr[2].value >= Top.expr[3].value

OrderingPruningWitness ==
    /\ status = "running" /\ Len(stack) >= 2 /\ Top.pc = "try"
    /\ ~IsAtomic(Top.expr[3]) /\ IsAtomic(Top.expr[2])

\* The frames of the nested solve() invocations
DepthBounded ==
    /\ Len(stack) <= Len(initial) - 1
    /\ \A k \in 2..Len(stack) :
          /\ Len(stack[k].entry) = Len(stack[k - 1].entry) - 1
          /\ Len(stack[k].entry) >= 2

\* The steps of a solve() on a pool of n terms when no operator is pruned:
\* per i a remove and an insert, per pair a remove, an insert and four
\* try_expr, each with a nested solve() on n - 1 terms and the removal of
\* the term after it unless the pair emptied the pool, and the return
RECURSIVE StepBound(_)
StepBound(n) ==
    2 * n + 1
    + ((n * (n - 1)) \div 2)
      * (2 + 4 * (1 + (IF n > 2 THEN 1 + StepBound(n - 1) ELSE 0)))

\* C10: solve() returns: the search is never stuck before it has returned
\* and has returned within StepBound(N) steps of its call; a nested solve()
\* is entered with a pool one term smaller than its parent's, never after
\* the removed pair left the pool empty, and there are at most N - 1 levels
\* of solve().
Termination ==
    /\ status # "panic"
    /\ Done \/ ENABLED Next
    /\ steps <= 1 + StepBound(Len(initial))
    /\ DepthBounded

TerminationWitness ==
    Done /\ Len(initial) >= 3 /\ steps > 1 + StepBound(2)

====
